---- MODULE Spec2Model ----
\* Coverage analysis engine of generar_dashboard.py (TeMapeo / Heligrafics):
\* process_intersections (point matching, flight-line footprint, coverage
\* ratio, polygon and parcel status) followed by the operator/date ledger of
\* generate_dashboard, as main() runs them on parsed KML polygons and MRK
\* photo-centres.
\*
\* Units.  A coordinate is an integer number of metres of the local frame of
\* process_intersections, that is degrees times m_lat = 111320; the survey
\* lies at the equator, where cos(ref_lat) differs from 1 by less than 1e-9,
\* so m_lng = m_lat for every comparison made here.
\* Hectares are integers in hundredths of a hectare (parse_kml rounds SUP_HA
\* to 2 decimals).  Coverage ratios are integers in thousandths (the code
\* stores round(.., 3)); the unrounded ratio is in ten-thousandths.
EXTENDS Integers, Sequences, FiniteSets, TLC

VARIABLES
    polygons,              \* all_polygons: the polygon dicts, in list order
    mrk_points,            \* all_mrk_points: the photo-centre dicts, in list order
    USE_SHAPELY,           \* whether "from shapely ... import" succeeds
    pc,                    \* position of the run
    idx,                   \* index of the loop in progress
    matched_count,         \* process_intersections: matched_count
    all_lines,             \* process_intersections: all_lines (one point list per LineString)
    areaRatio,             \* polygon index -> intersection.area / poly_shape.area, once computed
    op_total_ha,           \* generate_dashboard ledgers
    op_poly_count,
    op_date_ha,
    op_date_polys,
    daily_incremental_ha,
    cubierta_real,
    sum_daily,
    dateStats,             \* dashboard_data['dateStats'], the ledger handed to the page
    console,               \* what the "Diagnostic" block prints
    run,                   \* 1 in the first run, 2 in a re-run on the same records
    first                  \* outputs of the first run, kept for comparison

vars == <<polygons, mrk_points, USE_SHAPELY, pc, idx, matched_count, all_lines,
          areaRatio, op_total_ha, op_poly_count, op_date_ha, op_date_polys,
          daily_incremental_ha, cubierta_real, sum_daily, dateStats, console,
          run, first>>

-----------------------------------------------------------------------------
\* Bounds of the model

MaxPolys == 2
MaxPts == 3

\* Program constants

BUFFER_M == 27
GAP_M == 150
UMBRAL_COBERTURA == 550
TOLERANCE == 50
MIN_AREA_M2 == 1

NoKey == ""

-----------------------------------------------------------------------------
\* Generic helpers

Range(s) == {s[i] : i \in 1..Len(s)}

RECURSIVE SumSeq(_)
SumSeq(s) == IF s = <<>> THEN 0 ELSE Head(s) + SumSeq(Tail(s))

RECURSIVE SumFun(_)
SumFun(f) ==
    IF DOMAIN f = {} THEN 0
    ELSE LET k == CHOOSE x \in DOMAIN f : TRUE
         IN f[k] + SumFun([y \in DOMAIN f \ {k} |-> f[y]])

Abs(n) == IF n < 0 THEN -n ELSE n

Min(S) == CHOOSE m \in S : \A x \in S : m <= x
Max(S) == CHOOSE m \in S : \A x \in S : m >= x

\* A Python dict is a record with one field per key the program may set, and
\* the field "keys" holding the keys that are present; the field of a missing
\* key holds a placeholder that is never read.
Has(d, key) == key \in d.keys

\* d.get(key, default)
Get(d, key, default) == IF Has(d, key) THEN d[key] ELSE default

\* d[k] += v on a defaultdict / d[k] = d.get(k, 0) + v on a dict
DictAdd(d, k, v) ==
    IF k \in DOMAIN d THEN [d EXCEPT ![k] = @ + v]
    ELSE [x \in DOMAIN d \cup {k} |-> IF x = k THEN v ELSE d[x]]

EmptyDict == [x \in {} |-> 0]

\* A defaultdict(int) that remembers insertion order: a sequence of [k, n]
Keys(t) == {t[i].k : i \in 1..Len(t)}
Bump(t, key) ==
    IF key \in Keys(t)
    THEN [i \in 1..Len(t) |-> IF t[i].k = key THEN [k |-> key, n |-> t[i].n + 1] ELSE t[i]]
    ELSE Append(t, [k |-> key, n |-> 1])
Total(t) == SumSeq([i \in 1..Len(t) |-> t[i].n])
Count(t, key) ==
    IF key \in Keys(t) THEN t[CHOOSE i \in 1..Len(t) : t[i].k = key].n ELSE 0

-----------------------------------------------------------------------------
\* Date labels: main() builds f"{dd}/{mm}/{yyyy}" from the digits of the folder
\* name; a label is the sequence of its character codes, so that sorted()
\* compares labels as Python compares strings.

Digit(n) == 48 + n
Slash == <<47>>
QMark == <<63>>

DateLabel(dd, mm, yyyy) ==
    << Digit(dd \div 10), Digit(dd % 10) >> \o Slash \o
    << Digit(mm \div 10), Digit(mm % 10) >> \o Slash \o
    << Digit(yyyy \div 1000), Digit((yyyy \div 100) % 10),
       Digit((yyyy \div 10) % 10), Digit(yyyy % 10) >>

RECURSIVE StrLess(_, _)
StrLess(a, b) ==
    IF b = <<>> THEN FALSE
    ELSE IF a = <<>> THEN TRUE
    ELSE IF Head(a) # Head(b) THEN Head(a) < Head(b)
    ELSE StrLess(Tail(a), Tail(b))

\* sorted(keys)[0]
SortedFirst(S) == CHOOSE m \in S : \A x \in S \ {m} : StrLess(m, x)

-----------------------------------------------------------------------------
\* Geometry primitives

\* point_in_polygon: even-odd ray casting, x = lat, y = lng.  The test
\*   x < (xj - xi) * (y - yi) / (yj - yi) + xi
\* is evaluated only when (yi > y) # (yj > y), hence yj # yi; it is compared
\* here after multiplying both sides by (yj - yi).
\* A first operand that also holds for an edge lying on the ray
StraddlesInclusive(y, ci, cj) == (ci[2] >= y) # (cj[2] > y)

\* (yi > y) != (yj > y): the first operand of "and"; the quotient is
\* evaluated only when it holds
Straddles(y, ci, cj) == (ci[2] > y) # (cj[2] > y)

\* The quotient is evaluated with yj - yi = 0 (ZeroDivisionError)
DivisionByZero(y, ci, cj) == Straddles(y, ci, cj) /\ cj[2] - ci[2] = 0

EdgeCrosses(x, y, ci, cj) ==
    LET xi == ci[1]  yi == ci[2]
        xj == cj[1]  yj == cj[2]
    IN  /\ Straddles(y, ci, cj)
        /\ IF yj - yi > 0
           THEN (x - xi) * (yj - yi) < (xj - xi) * (y - yi)
           ELSE (x - xi) * (yj - yi) > (xj - xi) * (y - yi)

RECURSIVE RayCast(_, _, _, _, _, _)
RayCast(x, y, coords, i, j, inside) ==
    IF i > Len(coords) THEN inside
    ELSE RayCast(x, y, coords, i + 1, i,
                 IF EdgeCrosses(x, y, coords[i], coords[j]) THEN ~inside ELSE inside)

point_in_polygon(lat, lng, coords) ==
    RayCast(lat, lng, coords, 1, Len(coords), FALSE)

\* point_in_polygon raises instead of returning
Raises(lat, lng, coords) ==
    \E i \in 1..Len(coords) :
        DivisionByZero(lng, coords[i], coords[IF i = 1 THEN Len(coords) ELSE i - 1])

\* A box around the first two vertices only
BBoxOfFirstEdge(coords) ==
    LET lats == {coords[i][1] : i \in 1..Min({2, Len(coords)})}
        lngs == {coords[i][2] : i \in 1..Min({2, Len(coords)})}
    IN  <<Min(lats), Max(lats), Min(lngs), Max(lngs)>>

\* p['_bbox'] = (min(lats), max(lats), min(lngs), max(lngs))
BBox(coords) ==
    LET lats == {coords[i][1] : i \in 1..Len(coords)}
        lngs == {coords[i][2] : i \in 1..Len(coords)}
    IN  <<Min(lats), Max(lats), Min(lngs), Max(lngs)>>

OutsideBBox(lat, lng, bb) ==
    lat < bb[1] \/ lat > bb[2] \/ lng < bb[3] \/ lng > bb[4]

-----------------------------------------------------------------------------
\* Inputs: what parse_kml and the MRK loop of main() hand to the engine

\* Rings ([lat, lng] vertex lists).  SquareA is 100 m x 100 m (1 ha);
\* Triangle (0.32 ha) overlaps SquareA; SquareB (1.25 ha) lies beside both.
\* SUP_HA below is the area of the ring.
SquareA  == << <<0, 0>>, <<0, 100>>, <<100, 100>>, <<100, 0>> >>
Triangle == << <<50, 50>>, <<50, 130>>, <<130, 50>> >>
SquareB  == << <<60, 80>>, <<60, 180>>, <<185, 180>>, <<185, 80>> >>

\* A polygon dict as parse_kml leaves it: ESTADO preset to PENDIENTE and no
\* engine field yet.
\* attrs: the SimpleData attributes among NOM_PREDIO and ID_PREDIO
NewPolygon(coords, ha, attrs, nom, idp) ==
    [ keys |-> {"coords", "SUP_HA", "ESTADO"} \cup attrs,
      coords |-> coords, SUP_HA |-> ha, NOM_PREDIO |-> nom, ID_PREDIO |-> idp,
      ESTADO |-> "PENDIENTE",
      _bbox |-> <<>>, _mrkHits |-> 0, _cobertura |-> 0,
      _opHits |-> <<>>, _dateHits |-> <<>>, _opDateHits |-> <<>>,
      _polyEstado |-> "", _ops |-> {} ]

\* A parcel P1 named by NOM_PREDIO on one polygon and by ID_PREDIO alone on
\* another, and a polygon whose NOM_PREDIO is present but empty
PolygonCatalogue ==
    { NewPolygon(SquareA, 100, {"NOM_PREDIO"}, "P1", ""),
      NewPolygon(Triangle, 32, {"ID_PREDIO"}, "", "P1"),
      NewPolygon(SquareB, 125, {"NOM_PREDIO", "ID_PREDIO"}, NoKey, "P1") }

\* Photo-centre positions: inside SquareA and Triangle; inside Triangle only
\* and 10 m outside SquareA; 45 m from the nearest ring, exactly 150 m from the
\* first position and more than 150 m from the second.
Positions == { <<75, 75>>, <<110, 60>>, <<75, 225>> }

\* MRK files.  main() tags every point of a file with the operator of its
\* folder and, when the folder name holds a date, with that date's label.
Files == 1..3
FileOperator(f) == IF f = 1 THEN "M3E" ELSE "M3M"
FileHasDate(f) == f # 3
FileDate(f) == IF f = 1 THEN DateLabel(14, 2, 2026) ELSE DateLabel(1, 3, 2026)

NewPoint(pos, f) ==
    [ keys |-> {"lat", "lng", "file", "operator"}
               \cup (IF FileHasDate(f) THEN {"date"} ELSE {}),
      lat |-> pos[1], lng |-> pos[2], file |-> f,
      operator |-> FileOperator(f),
      date |-> IF FileHasDate(f) THEN FileDate(f) ELSE <<>>,
      matched |-> FALSE ]

PointCatalogue == { NewPoint(pos, f) : pos \in Positions, f \in Files }

\* all_polygons: distinct placemarks, in any order
PolygonLists ==
    UNION { { s \in [1..n -> PolygonCatalogue] : \A i, j \in 1..n : i # j => s[i] # s[j] }
            : n \in 1..MaxPolys }

\* all_mrk_points: main() extends the list file by file, so the points of one
\* file are contiguous and the files come in sorted order
PointLists ==
    UNION { { s \in [1..n -> PointCatalogue] : \A i \in 1..(n - 1) : s[i].file <= s[i + 1].file }
            : n \in 0..MaxPts }

NoOutputs == [ polygons |-> <<>>, matched |-> <<>>, ledger |-> <<>> ]

\* Nothing printed yet.  mark is "OK" for the check mark and "X" for the
\* cross; sin_fecha is <<dateless_count, dateless_ha>> and asignados is
\* <<earliest, sum_daily>> once their lines are printed.
NoConsole == [ cubierta |-> 0, suma |-> 0, mark |-> "", sin_fecha |-> <<>>,
               asignados |-> <<>> ]

\* The state in which main() starts on given polygons and photo-centres
Start ==
    /\ USE_SHAPELY \in BOOLEAN
    /\ pc = "main"
    /\ idx = 0
    /\ matched_count = 0
    /\ all_lines = <<>>
    /\ areaRatio = [i \in 1..Len(polygons) |-> -1]
    /\ op_total_ha = EmptyDict
    /\ op_poly_count = EmptyDict
    /\ op_date_ha = EmptyDict
    /\ op_date_polys = EmptyDict
    /\ daily_incremental_ha = EmptyDict
    /\ cubierta_real = 0
    /\ sum_daily = 0
    /\ dateStats = EmptyDict
    /\ console = NoConsole
    /\ run = 1
    /\ first = NoOutputs

Init ==
    /\ polygons \in PolygonLists
    /\ mrk_points \in PointLists
    /\ Start

ledgerVars == <<op_total_ha, op_poly_count, op_date_ha, op_date_polys,
                daily_incremental_ha, cubierta_real, sum_daily, dateStats, console>>

-----------------------------------------------------------------------------
\* main(): process_intersections is called only when there are photo-centres;
\* generate_dashboard is called in every case.  The locals of both functions
\* (all_lines, the ledgers) start empty in every call.
Main ==
    /\ pc = "main"
    /\ pc' = IF Len(mrk_points) > 0 THEN "reset" ELSE "ledger"
    /\ idx' = 1
    /\ all_lines' = <<>>
    /\ op_total_ha' = EmptyDict
    /\ op_poly_count' = EmptyDict
    /\ op_date_ha' = EmptyDict
    /\ op_date_polys' = EmptyDict
    /\ daily_incremental_ha' = EmptyDict
    /\ cubierta_real' = 0
    /\ sum_daily' = 0
    /\ dateStats' = EmptyDict
    /\ console' = NoConsole
    /\ UNCHANGED <<polygons, mrk_points, USE_SHAPELY, matched_count, areaRatio, run, first>>

\* A reset that initialises the counters only where they are missing
ResetPolygonOnce(p) ==
    LET hasCoords == Has(p, "coords") /\ p.coords # <<>>
        fresh == ~Has(p, "_mrkHits")
    IN  [ p EXCEPT !.keys = @ \cup {"_mrkHits", "_cobertura", "_opHits", "_dateHits",
                                   "_opDateHits"}
                           \cup (IF hasCoords THEN {"_bbox"} ELSE {}),
                   !._mrkHits = IF fresh THEN 0 ELSE @,
                   !._cobertura = 0,
                   !._opHits = IF fresh THEN <<>> ELSE @,
                   !._dateHits = IF fresh THEN <<>> ELSE @,
                   !._opDateHits = IF fresh THEN <<>> ELSE @,
                   !._bbox = IF hasCoords THEN BBox(p.coords) ELSE @ ]

\* process_intersections, first loop: reset the counters of every polygon and
\* compute its bounding box
ResetPolygon(p) ==
    LET hasCoords == Has(p, "coords") /\ p.coords # <<>>
    IN  [ p EXCEPT !.keys = @ \cup {"_mrkHits", "_cobertura", "_opHits", "_dateHits",
                                   "_opDateHits"}
                           \cup (IF hasCoords THEN {"_bbox"} ELSE {}),
                   !._mrkHits = 0, !._cobertura = 0,
                   !._opHits = <<>>, !._dateHits = <<>>, !._opDateHits = <<>>,
                   !._bbox = IF hasCoords THEN BBox(p.coords) ELSE @ ]

Reset ==
    /\ pc = "reset"
    /\ polygons' = [i \in 1..Len(polygons) |-> ResetPolygon(polygons[i])]
    /\ matched_count' = 0
    /\ pc' = "match"
    /\ idx' = 1
    /\ UNCHANGED <<mrk_points, USE_SHAPELY, all_lines, areaRatio, ledgerVars, run, first>>

\* A scan without the break: the last polygon that contains the point wins
ScanPolygonsLast(pt, polys, j) ==
    LET C == {k \in j..Len(polys) :
                /\ Has(polys[k], "_bbox")
                /\ ~OutsideBBox(pt.lat, pt.lng, polys[k]._bbox)
                /\ point_in_polygon(pt.lat, pt.lng, polys[k].coords)}
    IN  IF C = {} THEN 0 ELSE Max(C)

\* The inner loop over the polygons for one point: the index of the polygon
\* that takes the hit (the loop breaks there), or 0 when the loop runs out
RECURSIVE ScanPolygons(_, _, _)
ScanPolygons(pt, polys, j) ==
    IF j > Len(polys) THEN 0
    ELSE IF ~Has(polys[j], "_bbox") THEN ScanPolygons(pt, polys, j + 1)
    ELSE IF OutsideBBox(pt.lat, pt.lng, polys[j]._bbox) THEN ScanPolygons(pt, polys, j + 1)
    ELSE IF point_in_polygon(pt.lat, pt.lng, polys[j].coords) THEN j
    ELSE ScanPolygons(pt, polys, j + 1)

\* The inner loop ends in an exception of point_in_polygon
RECURSIVE ScanRaises(_, _, _)
ScanRaises(pt, polys, j) ==
    IF j > Len(polys) THEN FALSE
    ELSE IF ~Has(polys[j], "_bbox") THEN ScanRaises(pt, polys, j + 1)
    ELSE IF OutsideBBox(pt.lat, pt.lng, polys[j]._bbox) THEN ScanRaises(pt, polys, j + 1)
    ELSE IF Raises(pt.lat, pt.lng, polys[j].coords) THEN TRUE
    ELSE IF point_in_polygon(pt.lat, pt.lng, polys[j].coords) THEN FALSE
    ELSE ScanRaises(pt, polys, j + 1)

\* A tally that leaves the hits of points without date out of _dateHits
RecordHitDatedOnly(p, pt) ==
    LET op == Get(pt, "operator", "?")
        date == Get(pt, "date", QMark)
    IN  [ p EXCEPT !._mrkHits = @ + 1,
                   !._opHits = Bump(@, op),
                   !._dateHits = IF Has(pt, "date") THEN Bump(@, date) ELSE @,
                   !._opDateHits = Bump(@, <<op, date>>) ]

\* A tally that files every hit of a polygon under the first date it saw
RecordHitFirstDate(p, pt) ==
    LET op == Get(pt, "operator", "?")
        date == Get(pt, "date", QMark)
    IN  [ p EXCEPT !._mrkHits = @ + 1,
                   !._opHits = Bump(@, op),
                   !._dateHits = Bump(@, IF @ = <<>> THEN date ELSE @[1].k),
                   !._opDateHits = Bump(@, <<op, date>>) ]

\* The body of "if point_in_polygon(...)", the flag of the point apart
RecordHit(p, pt) ==
    LET op == Get(pt, "operator", "?")
        date == Get(pt, "date", QMark)
    IN  [ p EXCEPT !._mrkHits = @ + 1,
                   !._opHits = Bump(@, op),
                   !._dateHits = Bump(@, date),
                   !._opDateHits = Bump(@, <<op, date>>) ]

\* "for pt in mrk_points" from point i on: the polygons after the pass
RECURSIVE MatchAll(_, _, _)
MatchAll(polys, pts, i) ==
    IF i > Len(pts) THEN polys
    ELSE LET j == ScanPolygons(pts[i], polys, 1)
         IN  MatchAll(IF j = 0 THEN polys ELSE [polys EXCEPT ![j] = RecordHit(@, pts[i])],
                      pts, i + 1)

\* One iteration of "for pt in mrk_points"
MatchPoint ==
    /\ pc = "match"
    /\ idx <= Len(mrk_points)
    /\ LET pt == mrk_points[idx]
           j == ScanPolygons(pt, polygons, 1)
       IN  IF ScanRaises(pt, polygons, 1)
           THEN /\ pc' = "raised"
                /\ UNCHANGED <<polygons, mrk_points, matched_count, idx>>
           ELSE /\ IF j = 0
                   THEN UNCHANGED <<polygons, mrk_points, matched_count>>
                   ELSE /\ polygons' = [polygons EXCEPT ![j] = RecordHit(@, pt)]
                        /\ mrk_points' = [mrk_points EXCEPT ![idx].matched = TRUE,
                                                            ![idx].keys = @ \cup {"matched"}]
                        /\ matched_count' = matched_count + 1
                /\ idx' = idx + 1
                /\ pc' = IF idx = Len(mrk_points) THEN "lines" ELSE "match"
    /\ UNCHANGED <<USE_SHAPELY, all_lines, areaRatio, ledgerVars, run, first>>

-----------------------------------------------------------------------------
\* Flight lines (process_intersections, "Build lines, splitting at gaps")

\* The projected position of a point.  The code subtracts the centroid
\* (ref_lat, ref_lng) first; only differences of projected positions are used
\* below, so the translation is left out.
Local(pt) == <<pt.lat, pt.lng>>

\* A gap test that also splits at exactly 150 m
GapExceededOrEqual(a, b) ==
    LET dx == b[1] - a[1]
        dy == b[2] - a[2]
    IN  dx * dx + dy * dy >= GAP_M * GAP_M

\* math.sqrt(dx*dx + dy*dy) > 150
GapExceeded(a, b) ==
    LET dx == b[1] - a[1]
        dy == b[2] - a[2]
    IN  dx * dx + dy * dy > GAP_M * GAP_M

\* all_lines.append(LineString(seg)) when len(seg) >= 2.  A seg of repeated
\* positions is kept too: its buffer is the disc around the position.
KeepSeg(lines, seg) == IF Len(seg) >= 2 THEN Append(lines, seg) ELSE lines

\* "for i in range(1, len(local))" with its closing "if len(seg) >= 2"
RECURSIVE SplitLoop(_, _, _, _)
SplitLoop(local, i, seg, lines) ==
    IF i > Len(local) THEN KeepSeg(lines, seg)
    ELSE IF GapExceeded(local[i - 1], local[i])
         THEN SplitLoop(local, i + 1, <<local[i]>>, KeepSeg(lines, seg))
         ELSE SplitLoop(local, i + 1, Append(seg, local[i]), lines)

\* flight_pts: the file names in order of first appearance
RECURSIVE FileOrder(_, _)
FileOrder(pts, seen) ==
    IF pts = <<>> THEN seen
    ELSE FileOrder(Tail(pts),
                   IF Head(pts).file \in Range(seen) THEN seen
                   ELSE Append(seen, Head(pts).file))

PointsOfFile(pts, f) ==
    LET sel == SelectSeq(pts, LAMBDA pt : pt.file = f)
    IN  [i \in 1..Len(sel) |-> Local(sel[i])]

RECURSIVE LinesOfFiles(_, _, _)
LinesOfFiles(pts, files, lines) ==
    IF files = <<>> THEN lines
    ELSE LET local == PointsOfFile(pts, Head(files))
         IN  LinesOfFiles(pts, Tail(files), SplitLoop(local, 2, <<local[1]>>, lines))

BuildAllLines(pts) == LinesOfFiles(pts, FileOrder(pts, <<>>), <<>>)

\* A fallback that takes a polygon with hits as fully covered
DegradedHitsAsCover ==
    /\ pc = "lines"
    /\ ~USE_SHAPELY
    /\ polygons' = [i \in 1..Len(polygons) |->
                      [polygons[i] EXCEPT !._cobertura =
                          IF polygons[i]._mrkHits > 0 THEN 1000 ELSE 0]]
    /\ pc' = "classify"
    /\ UNCHANGED <<mrk_points, USE_SHAPELY, idx, matched_count, all_lines,
                   areaRatio, ledgerVars, run, first>>

\* "except ImportError": the footprint is not computed at all
Degraded ==
    /\ pc = "lines"
    /\ ~USE_SHAPELY
    /\ pc' = "classify"
    /\ UNCHANGED <<polygons, mrk_points, USE_SHAPELY, idx, matched_count, all_lines,
                   areaRatio, ledgerVars, run, first>>

\* "if USE_SHAPELY and mrk_points" ... "if all_lines"
BuildLines ==
    /\ pc = "lines"
    /\ USE_SHAPELY
    /\ Len(mrk_points) > 0
    /\ all_lines' = BuildAllLines(mrk_points)
    /\ pc' = IF all_lines' # <<>> THEN "cover" ELSE "classify"
    /\ idx' = 1
    /\ UNCHANGED <<polygons, mrk_points, USE_SHAPELY, matched_count,
                   areaRatio, ledgerVars, run, first>>

-----------------------------------------------------------------------------
\* Footprint and coverage ratio

\* Whether the distance from point p to the segment a-b is below r
PointNearSegment(p, a, b, r) ==
    LET abx == b[1] - a[1]   aby == b[2] - a[2]
        apx == p[1] - a[1]   apy == p[2] - a[2]
        bpx == p[1] - b[1]   bpy == p[2] - b[2]
        t == apx * abx + apy * aby
        len2 == abx * abx + aby * aby
        cross == abx * apy - aby * apx
    IN  IF len2 = 0 \/ t <= 0 THEN apx * apx + apy * apy < r * r
        ELSE IF t >= len2 THEN bpx * bpx + bpy * bpy < r * r
        ELSE cross * cross < r * r * len2

Orient(a, b, c) == (b[1] - a[1]) * (c[2] - a[2]) - (b[2] - a[2]) * (c[1] - a[1])

SegmentsCross(a, b, c, d) ==
    /\ Orient(a, b, c) * Orient(a, b, d) < 0
    /\ Orient(c, d, a) * Orient(c, d, b) < 0

SegmentsNear(a, b, c, d, r) ==
    \/ SegmentsCross(a, b, c, d)
    \/ PointNearSegment(a, c, d, r) \/ PointNearSegment(b, c, d, r)
    \/ PointNearSegment(c, a, b, r) \/ PointNearSegment(d, a, b, r)

\* prep_coverage.intersects(poly_shape), with flight_coverage the union of
\* line.buffer(BUFFER_M): some piece of some line comes within BUFFER_M of
\* the polygon
FootprintIntersects(lines, coords) ==
    \E l \in 1..Len(lines) : \E k \in 1..(Len(lines[l]) - 1) :
        LET a == lines[l][k]
            b == lines[l][k + 1]
        IN  \/ point_in_polygon(a[1], a[2], coords)
            \/ point_in_polygon(b[1], b[2], coords)
            \/ \E i \in 1..Len(coords) :
                 SegmentsNear(a, b, coords[i], coords[(i % Len(coords)) + 1], BUFFER_M)

\* Twice poly_shape.area (shoelace formula), in square metres
RECURSIVE Shoelace(_, _)
Shoelace(coords, i) ==
    IF i > Len(coords) THEN 0
    ELSE LET a == coords[i]
             b == coords[(i % Len(coords)) + 1]
         IN  a[1] * b[2] - b[1] * a[2] + Shoelace(coords, i + 1)

TwiceArea(coords) == Abs(Shoelace(coords, 1))

\* An upper bound, in square metres, of the area of flight_coverage: each
\* piece of a line adds at most 2 * BUFFER_M times its length (at most
\* |dx| + |dy|), each line at most one disc of radius BUFFER_M (pi < 22/7)
RECURSIVE PiecesLength(_, _)
PiecesLength(line, k) ==
    IF k >= Len(line) THEN 0
    ELSE Abs(line[k + 1][1] - line[k][1]) + Abs(line[k + 1][2] - line[k][2])
         + PiecesLength(line, k + 1)

FootprintAreaBound(lines) ==
    SumSeq([l \in 1..Len(lines) |->
               2 * BUFFER_M * PiecesLength(lines[l], 1)
               + (22 * BUFFER_M * BUFFER_M) \div 7 + 1])

\* intersection.area / poly_shape.area, as Shapely may return it when the
\* footprint overlaps the polygon, in ten-thousandths: a sliver, a partial
\* cover, just below and just above the threshold, and a full cover whose
\* quotient overshoots 1 by a rounding error.  The intersection is no larger
\* than the footprint.
AreaRatios == {4, 1200, 5494, 5496, 10001}

PossibleRatios(lines, coords) ==
    {cov \in AreaRatios :
        (cov - 1) * TwiceArea(coords) <= 2 * 10000 * FootprintAreaBound(lines)}

\* round(x, 3), x in ten-thousandths, result in thousandths
Round3(x) ==
    LET q == x \div 10
        r == x % 10
    IN  IF r < 5 THEN q
        ELSE IF r > 5 THEN q + 1
        ELSE IF q % 2 = 0 THEN q ELSE q + 1

\* The ratio stored as a percentage: round(min(cov, 1.0) * 100, 1)
ClampRoundPercent(cov) == 100 * Round3(IF cov < 10000 THEN cov ELSE 10000)

\* round(min(cov, 1.0), 3)
ClampRound(cov) == Round3(IF cov < 10000 THEN cov ELSE 10000)

\* One iteration of "for p in polygons" of the coverage loop
CoverPolygon ==
    /\ pc = "cover"
    /\ idx <= Len(polygons)
    /\ LET p == polygons[idx]
       IN  IF ~Has(p, "coords") \/ Len(p.coords) < 3
           THEN UNCHANGED <<polygons, areaRatio>>
           ELSE IF TwiceArea(p.coords) < 2 * MIN_AREA_M2
           THEN UNCHANGED <<polygons, areaRatio>>
           ELSE IF ~FootprintIntersects(all_lines, p.coords)
           THEN /\ polygons' = [polygons EXCEPT ![idx]._cobertura = 0]
                /\ UNCHANGED areaRatio
           ELSE \E cov \in PossibleRatios(all_lines, p.coords) :
                /\ areaRatio[idx] \in {-1, cov}
                /\ areaRatio' = [areaRatio EXCEPT ![idx] = cov]
                /\ polygons' = [polygons EXCEPT ![idx]._cobertura = ClampRound(cov)]
    /\ idx' = idx + 1
    /\ pc' = IF idx = Len(polygons) THEN "classify" ELSE "cover"
    /\ UNCHANGED <<mrk_points, USE_SHAPELY, matched_count, all_lines, ledgerVars, run, first>>

-----------------------------------------------------------------------------
\* Status per polygon and per parcel

\* A classification whose threshold comparison is strict
PolyEstadoStrict(cov, hits) ==
    IF cov > UMBRAL_COBERTURA THEN "VOLADO"
    ELSE IF cov > 0 \/ hits > 0 THEN "PARCIAL"
    ELSE "PENDIENTE"

\* "Asignar estado por poligono"
PolyEstado(cov, hits) ==
    IF cov >= UMBRAL_COBERTURA THEN "VOLADO"
    ELSE IF cov > 0 \/ hits > 0 THEN "PARCIAL"
    ELSE "PENDIENTE"

Classify ==
    /\ pc = "classify"
    /\ polygons' = [i \in 1..Len(polygons) |->
                      [polygons[i] EXCEPT
                          !.keys = @ \cup {"_polyEstado"},
                          !._polyEstado = PolyEstado(Get(polygons[i], "_cobertura", 0),
                                                     Get(polygons[i], "_mrkHits", 0))]]
    /\ pc' = "aggregate"
    /\ UNCHANGED <<mrk_points, USE_SHAPELY, idx, matched_count, all_lines,
                   areaRatio, ledgerVars, run, first>>

\* key = p.get('NOM_PREDIO', p.get('ID_PREDIO', ''))
PredioKey(p) == Get(p, "NOM_PREDIO", Get(p, "ID_PREDIO", NoKey))

\* predios[key]: the indices of the polygons of one parcel
Members(polys, key) == {i \in 1..Len(polys) : PredioKey(polys[i]) = key}

RECURSIVE SumHits(_, _)
SumHits(polys, S) ==
    IF S = {} THEN 0
    ELSE LET i == CHOOSE x \in S : TRUE
         IN  Get(polys[i], "_mrkHits", 0) + SumHits(polys, S \ {i})

\* A parcel rule that reports VOLADO as soon as one member is VOLADO
PredioEstadoLenient(polys, S) ==
    LET estados == {polys[i]._polyEstado : i \in S}
    IN  IF "VOLADO" \in estados THEN "VOLADO"
        ELSE IF \E i \in S : Get(polys[i], "_cobertura", 0) > 0
                            \/ Get(polys[i], "_mrkHits", 0) > 0
        THEN "PARCIAL"
        ELSE "PENDIENTE"

\* The if / elif chain that sets predio_estado
PredioEstado(polys, S) ==
    LET estados == {polys[i]._polyEstado : i \in S}
        total_hits == SumHits(polys, S)
    IN  IF estados = {"VOLADO"} THEN "VOLADO"
        ELSE IF total_hits = 0 /\ \A i \in S : Get(polys[i], "_cobertura", 0) = 0
        THEN "PENDIENTE"
        ELSE IF \E i \in S : Get(polys[i], "_cobertura", 0) > 0
                            \/ Get(polys[i], "_mrkHits", 0) > 0
        THEN "PARCIAL"
        ELSE "PENDIENTE"

\* ops = [op for op, hits in p.get('_opHits', {}).items() if hits > 0]
TouchingOps(p) ==
    LET t == Get(p, "_opHits", <<>>)
    IN  {t[i].k : i \in {j \in 1..Len(t) : t[j].n > 0}}

\* A propagation that leaves a polygon without parcel with the ESTADO it had
AggregatePolygonKeep(polys, i) ==
    LET p == polys[i]
        key == PredioKey(p)
        ops == TouchingOps(p)
    IN  [ p EXCEPT !.keys = @ \cup {"ESTADO"} \cup (IF ops # {} THEN {"_ops"} ELSE {}),
                   !.ESTADO = IF key # NoKey THEN PredioEstado(polys, Members(polys, key))
                              ELSE IF Has(p, "ESTADO") THEN @
                              ELSE Get(p, "_polyEstado", "PENDIENTE"),
                   !._ops = IF ops # {} THEN ops ELSE @ ]

\* "Propagar estado a nivel de predio", "Poligonos sin predio" and the _ops
\* list (kept here as the set of its elements; the code stores it sorted)
AggregatePolygon(polys, i) ==
    LET p == polys[i]
        key == PredioKey(p)
        \* after "for predio, polys in predios.items()"
        inPredio == key # NoKey
        afterPredios == IF inPredio THEN PredioEstado(polys, Members(polys, key))
                        ELSE p.ESTADO
        hasEstado == Has(p, "ESTADO") \/ inPredio
        \* after "if 'ESTADO' not in p or not p.get('NOM_PREDIO', ...)"
        estado == IF ~hasEstado \/ key = NoKey
                  THEN Get(p, "_polyEstado", "PENDIENTE")
                  ELSE afterPredios
        ops == TouchingOps(p)
    IN  [ p EXCEPT !.keys = @ \cup {"ESTADO"} \cup (IF ops # {} THEN {"_ops"} ELSE {}),
                   !.ESTADO = estado,
                   !._ops = IF ops # {} THEN ops ELSE @ ]

Aggregate ==
    /\ pc = "aggregate"
    /\ polygons' = [i \in 1..Len(polygons) |-> AggregatePolygon(polygons, i)]
    /\ pc' = "ledger"
    /\ idx' = 1
    /\ UNCHANGED <<mrk_points, USE_SHAPELY, matched_count, all_lines,
                   areaRatio, ledgerVars, run, first>>

-----------------------------------------------------------------------------
\* generate_dashboard: operator and date ledgers

\* A maximum that keeps the last of several greatest items
RECURSIVE MaxLoopLast(_, _, _)
MaxLoopLast(items, i, best) ==
    IF i > Len(items) THEN best
    ELSE MaxLoopLast(items, i + 1, IF items[i].n >= items[best].n THEN i ELSE best)

\* max(date_hits.items(), key=lambda x: x[1])[0]: max() keeps the first item
\* and replaces it only by a strictly greater one, so the result is the first
\* entry, in insertion order, whose count no other entry exceeds
RECURSIVE MaxLoop(_, _, _)
MaxLoop(items, i, best) ==
    IF i > Len(items) THEN best
    ELSE MaxLoop(items, i + 1, IF items[i].n > items[best].n THEN i ELSE best)

\* max(date_hits.items(), key=lambda x: x[1])[0]
PrimaryDate(date_hits) == date_hits[MaxLoop(date_hits, 2, 1)].k

\* An update that assigns ("d[op] = v") where the code accumulates
RECURSIVE AddPositiveAssign(_, _, _, _)
AddPositiveAssign(d, tally, i, v) ==
    IF i > Len(tally) THEN d
    ELSE AddPositiveAssign(
             IF tally[i].n > 0
             THEN [x \in DOMAIN d \cup {tally[i].k} |-> IF x = tally[i].k THEN v ELSE d[x]]
             ELSE d,
             tally, i + 1, v)

\* "for op, hits in op_hits.items(): if hits > 0: d[op] += v"
RECURSIVE AddPositive(_, _, _, _)
AddPositive(d, tally, i, v) ==
    IF i > Len(tally) THEN d
    ELSE AddPositive(IF tally[i].n > 0 THEN DictAdd(d, tally[i].k, v) ELSE d,
                     tally, i + 1, v)

Covered(p) == Get(p, "_polyEstado", "PENDIENTE") # "PENDIENTE"

\* One iteration of "for i, p in enumerate(all_polygons)"
LedgerPolygon ==
    /\ pc = "ledger"
    /\ idx <= Len(polygons)
    /\ LET p == polygons[idx]
           ha == Get(p, "SUP_HA", 0)
           op_hits == Get(p, "_opHits", <<>>)
           op_date_hits == Get(p, "_opDateHits", <<>>)
           date_hits == Get(p, "_dateHits", <<>>)
       IN  IF ~Covered(p)
           THEN UNCHANGED <<op_total_ha, op_poly_count, op_date_ha, op_date_polys,
                            daily_incremental_ha>>
           ELSE /\ op_total_ha' = AddPositive(op_total_ha, op_hits, 1, ha)
                /\ op_poly_count' = AddPositive(op_poly_count, op_hits, 1, 1)
                /\ op_date_ha' = AddPositive(op_date_ha, op_date_hits, 1, ha)
                /\ op_date_polys' = AddPositive(op_date_polys, op_date_hits, 1, 1)
                /\ daily_incremental_ha' =
                       IF date_hits # <<>>
                       THEN DictAdd(daily_incremental_ha, PrimaryDate(date_hits), ha)
                       ELSE daily_incremental_ha
    /\ idx' = idx + 1
    /\ pc' = IF idx = Len(polygons) THEN "repair" ELSE "ledger"
    /\ UNCHANGED <<polygons, mrk_points, USE_SHAPELY, matched_count, all_lines,
                   areaRatio, cubierta_real, sum_daily, dateStats, console, run, first>>

\* sum(p.get('SUP_HA', 0) for p in all_polygons if p.get('_polyEstado') in ('VOLADO', 'PARCIAL'))
RECURSIVE SumHa(_, _)
SumHa(polys, S) ==
    IF S = {} THEN 0
    ELSE LET i == CHOOSE x \in S : TRUE
         IN  Get(polys[i], "SUP_HA", 0) + SumHa(polys, S \ {i})

CoveredSet(polys) ==
    {i \in 1..Len(polys) : Get(polys[i], "_polyEstado", "") \in {"VOLADO", "PARCIAL"}}

\* A test that takes every covered polygon as dateless
DatelessAlways(p) == TRUE

\* "if not any(h > 0 for h in date_hits.values())"
Dateless(p) ==
    LET date_hits == Get(p, "_dateHits", <<>>)
    IN  ~\E i \in 1..Len(date_hits) : date_hits[i].n > 0

DatelessSet(polys) == {i \in CoveredSet(polys) : Dateless(polys[i])}

\* round(ha, 1) and the format {:,.1f}: hundredths to tenths, a tie going to
\* the even digit (the surfaces of the catalogue that end in 5 hundredths are
\* multiples of a quarter, which a float holds exactly)
Round1(x) ==
    LET q == x \div 10
        r == x % 10
    IN  IF r < 5 THEN q
        ELSE IF r > 5 THEN q + 1
        ELSE IF q % 2 = 0 THEN q ELSE q + 1

\* {date: round(ha, 1) for date, ha in daily_incremental_ha.items()}
RoundAll(d) == [k \in DOMAIN d |-> Round1(d[k])]

\* A mark that is always the check mark
MarkAlwaysOk(suma, cubierta) == "OK"

\* the check mark if abs(sum_daily - cubierta_real) < 0.5, else the cross
Mark(suma, cubierta) == IF Abs(suma - cubierta) < TOLERANCE THEN "OK" ELSE "X"

\* "dateStats", "Diagnostic" and the assignment of the dateless polygons to
\* the earliest available date
Repair ==
    /\ pc = "repair"
    /\ cubierta_real' = SumHa(polygons, CoveredSet(polygons))
    /\ LET before == SumFun(daily_incremental_ha)
           dateless == DatelessSet(polygons)
           dateless_ha == SumHa(polygons, dateless)
           dateless_count == Cardinality(dateless)
           mismatch == Abs(before - cubierta_real') >= TOLERANCE
           printed == [ NoConsole EXCEPT
                          !.cubierta = Round1(cubierta_real'),
                          !.suma = Round1(before),
                          !.mark = Mark(before, cubierta_real'),
                          !.sin_fecha = IF mismatch
                                        THEN <<dateless_count, Round1(dateless_ha)>>
                                        ELSE <<>> ]
       IN  IF mismatch /\ dateless_count > 0 /\ DOMAIN daily_incremental_ha # {}
           THEN LET earliest == SortedFirst(DOMAIN daily_incremental_ha)
                IN  /\ daily_incremental_ha' =
                           DictAdd(daily_incremental_ha, earliest, dateless_ha)
                    /\ sum_daily' = SumFun(daily_incremental_ha')
                    /\ console' = [printed EXCEPT
                                      !.asignados = <<earliest, Round1(sum_daily')>>]
           ELSE /\ daily_incremental_ha' = daily_incremental_ha
                /\ sum_daily' = before
                /\ console' = printed
    /\ dateStats' = RoundAll(daily_incremental_ha')
    /\ pc' = "done"
    /\ UNCHANGED <<polygons, mrk_points, USE_SHAPELY, idx, matched_count, all_lines,
                   areaRatio, op_total_ha, op_poly_count, op_date_ha, op_date_polys,
                   run, first>>

-----------------------------------------------------------------------------
\* A second run of the engine on the same polygon and point records, with the
\* same photo-centres: the outputs of the first run are kept for comparison

PolygonOutputs(p) ==
    [ _polyEstado |-> Get(p, "_polyEstado", "PENDIENTE"),
      ESTADO |-> Get(p, "ESTADO", "PENDIENTE"),
      _cobertura |-> Get(p, "_cobertura", 0),
      _mrkHits |-> Get(p, "_mrkHits", 0),
      _opHits |-> Get(p, "_opHits", <<>>),
      _dateHits |-> Get(p, "_dateHits", <<>>),
      _opDateHits |-> Get(p, "_opDateHits", <<>>) ]

Outputs ==
    [ polygons |-> [i \in 1..Len(polygons) |-> PolygonOutputs(polygons[i])],
      matched |-> [i \in 1..Len(mrk_points) |-> mrk_points[i].matched],
      ledger |-> <<op_total_ha, op_poly_count, op_date_ha, op_date_polys,
                   daily_incremental_ha, cubierta_real, sum_daily, dateStats>> ]

Rerun ==
    /\ pc = "done"
    /\ run = 1
    /\ run' = 2
    /\ first' = Outputs
    /\ pc' = "main"
    /\ UNCHANGED <<polygons, mrk_points, USE_SHAPELY, idx, matched_count, all_lines,
                   areaRatio, ledgerVars>>

Next == Main \/ Reset \/ MatchPoint \/ Degraded \/ BuildLines \/ CoverPolygon
        \/ Classify \/ Aggregate \/ LedgerPolygon \/ Repair

Spec == Init /\ [][Next]_vars

NextRerun == Next \/ Rerun

\* A second run on the polygon dicts the first run has written to, with
\* fewer photo-centres: one point record of the first run is left out, the
\* others are passed again as the first run left them.  The footprint is
\* another one, so the areas are computed anew.
RemoveAt(s, k) == [i \in 1..(Len(s) - 1) |-> IF i < k THEN s[i] ELSE s[i + 1]]

RerunWith ==
    /\ pc = "done"
    /\ run = 1
    /\ Len(mrk_points) >= 2
    /\ \E k \in 1..Len(mrk_points) : mrk_points' = RemoveAt(mrk_points, k)
    /\ areaRatio' = [i \in 1..Len(polygons) |-> -1]
    /\ run' = 2
    /\ first' = Outputs
    /\ pc' = "main"
    /\ UNCHANGED <<polygons, USE_SHAPELY, idx, matched_count, all_lines, ledgerVars>>

NextFresh == Next \/ RerunWith

SpecFresh == Init /\ [][NextFresh]_vars

\* The matching pass alone, on one photo-centre taken from a grid of
\* positions that holds the vertices of the rings, points of their edges,
\* of their interiors and of their bounding boxes, and points outside
GridLats == {-10, 0, 50, 60, 75, 90, 100, 110, 130, 185, 200}
GridLngs == {-10, 0, 50, 75, 80, 90, 100, 130, 180, 200}

InitGrid ==
    /\ polygons \in PolygonLists
    /\ mrk_points \in {<<NewPoint(<<lat, lng>>, 1)>> : lat \in GridLats, lng \in GridLngs}
    /\ Start

NextMatch == Main \/ Reset \/ MatchPoint

\* A survey whose KML holds every placemark of the catalogue, in any order
InitCatalogue ==
    /\ polygons \in {s \in [1..Cardinality(PolygonCatalogue) -> PolygonCatalogue] :
                        \A i, j \in DOMAIN s : i # j => s[i] # s[j]}
    /\ mrk_points \in PointLists
    /\ Start

SpecCatalogue == InitCatalogue /\ [][Next]_vars

\* Polygon dicts with a malformed ring, as a caller other than parse_kml may
\* pass them: no 'coords' key (and none of the keys parse_kml adds with it),
\* an empty ring, a ring of two vertices, a ring of three equal vertices, and
\* a triangle of 0.5 m2 with a vertex on the first photo-centre position
NoRing == [ NewPolygon(<<>>, 0, {}, "", "") EXCEPT !.keys = {} ]

MalformedCatalogue ==
    { NoRing,
      NewPolygon(<<>>, 0, {}, "", ""),
      NewPolygon(<< <<0, 0>>, <<100, 100>> >>, 0, {}, "", ""),
      NewPolygon(<< <<75, 75>>, <<75, 75>>, <<75, 75>> >>, 0, {"NOM_PREDIO"}, "P2", ""),
      NewPolygon(<< <<75, 75>>, <<75, 76>>, <<76, 75>> >>, 1, {"NOM_PREDIO"}, "P2", "") }

InitMalformed ==
    /\ polygons \in
          {s \in UNION {[1..n -> MalformedCatalogue
                                 \cup {NewPolygon(SquareA, 100, {"NOM_PREDIO"}, "P1", "")}]
                        : n \in 1..MaxPolys} :
              /\ \A i, j \in DOMAIN s : i # j => s[i] # s[j]
              /\ \E i \in DOMAIN s : s[i] \in MalformedCatalogue}
    /\ mrk_points \in PointLists
    /\ Start

SpecMalformed == InitMalformed /\ [][Next]_vars

SpecMatch == InitGrid /\ [][NextMatch]_vars

SpecRerun == Init /\ [][NextRerun]_vars

-----------------------------------------------------------------------------
\* Properties

\* process_intersections was called and has returned
Ran == Len(mrk_points) > 0
AfterIntersections == Ran /\ pc \in {"ledger", "repair", "done"}
AfterClassify == Ran /\ pc \in {"aggregate", "ledger", "repair", "done"}

\* The parcel key of a polygon: NOM_PREDIO when the polygon carries it, else
\* ID_PREDIO, else none
ParcelKeyOf(p) ==
    IF "NOM_PREDIO" \in p.keys THEN p.NOM_PREDIO
    ELSE IF "ID_PREDIO" \in p.keys THEN p.ID_PREDIO
    ELSE ""

ParcelMembers(key) == {i \in 1..Len(polygons) : ParcelKeyOf(polygons[i]) = key}

StrictParcelStatus(S) ==
    IF \A m \in S : polygons[m]._polyEstado = "VOLADO" THEN "VOLADO"
    ELSE IF \A m \in S : polygons[m]._mrkHits = 0 /\ polygons[m]._cobertura = 0
    THEN "PENDIENTE"
    ELSE "PARCIAL"

\* C1: after process_intersections, every member of a parcel reports VOLADO
\* exactly when all members of the parcel are VOLADO, PENDIENTE when no member
\* has a hit or a positive ratio, and PARCIAL otherwise.
C1_StrictParcelRule ==
    AfterIntersections =>
        \A i \in 1..Len(polygons) :
            LET key == ParcelKeyOf(polygons[i])
            IN  key # "" =>
                    /\ polygons[i].ESTADO = StrictParcelStatus(ParcelMembers(key))
                    /\ (polygons[i].ESTADO = "VOLADO") <=>
                           (\A m \in ParcelMembers(key) : polygons[m]._polyEstado = "VOLADO")

\* A parcel of two polygons, one VOLADO and one PENDIENTE, reported PARCIAL
C1_Witness ==
    /\ pc = "done"
    /\ Len(polygons) = 2
    /\ ParcelKeyOf(polygons[1]) = "P1" /\ ParcelKeyOf(polygons[2]) = "P1"
    /\ {polygons[1]._polyEstado, polygons[2]._polyEstado} = {"VOLADO", "PENDIENTE"}
    /\ polygons[1].ESTADO = "PARCIAL" /\ polygons[2].ESTADO = "PARCIAL"

\* C2: the polygon status is VOLADO when the stored ratio is at least 0.55,
\* otherwise PARCIAL when the ratio or the hit count is positive, otherwise
\* PENDIENTE; exactly one of the three cases applies.
C2_PolygonStatus ==
    AfterClassify =>
        \A i \in 1..Len(polygons) :
            LET p == polygons[i]
                complete == p._cobertura >= 550
                partial == ~complete /\ (p._cobertura > 0 \/ p._mrkHits > 0)
                pending == ~complete /\ ~partial
            IN  /\ complete => p._polyEstado = "VOLADO"
                /\ partial => p._polyEstado = "PARCIAL"
                /\ pending => p._polyEstado = "PENDIENTE"
                /\ p._polyEstado \in {"VOLADO", "PARCIAL", "PENDIENTE"}

\* A polygon whose ratio is exactly the threshold is VOLADO, beside one whose
\* ratio is 0.549 and is PARCIAL
C2_Witness ==
    /\ pc = "done"
    /\ \E i, j \in 1..Len(polygons) :
          /\ polygons[i]._cobertura = 550 /\ polygons[i]._polyEstado = "VOLADO"
          /\ polygons[j]._cobertura = 549 /\ polygons[j]._polyEstado = "PARCIAL"

\* Sum of the hectares of the polygons whose status is not PENDIENTE
CoveredHa ==
    SumSeq([i \in 1..Len(polygons) |->
               IF Get(polygons[i], "_polyEstado", "PENDIENTE") # "PENDIENTE"
               THEN polygons[i].SUP_HA ELSE 0])

SomePointDated == \E i \in 1..Len(mrk_points) : "date" \in mrk_points[i].keys

\* C3: when some photo-centre carries a date, the per-date newly-covered
\* hectares sum, after the repair step, to the hectares of the non-PENDIENTE
\* polygons within 0.5 ha.
C3_Reconciliation ==
    (pc = "done" /\ SomePointDated) =>
        Abs(SumFun(daily_incremental_ha) - CoveredHa) < 50

\* The polygons that contain a point: inside the bounding box of the ring and
\* inside the ring by the ray-casting test
Containing(pt) ==
    {j \in 1..Len(polygons) :
        /\ ~OutsideBBox(pt.lat, pt.lng, BBox(polygons[j].coords))
        /\ point_in_polygon(pt.lat, pt.lng, polygons[j].coords)}

\* C4: a step of the matching pass gives the hit of the point to the first
\* polygon, in list order, that contains it, and changes no other polygon; a
\* point that no polygon contains changes no counter and stays unmatched.
C4_FirstMatchWins ==
    [][ pc = "match" =>
          LET pt == mrk_points[idx]
              C == Containing(pt)
          IN  IF C = {}
              THEN /\ polygons' = polygons
                   /\ mrk_points' = mrk_points
                   /\ matched_count' = matched_count
              ELSE LET j == Min(C)
                   IN  /\ polygons'[j]._mrkHits = polygons[j]._mrkHits + 1
                       /\ \A k \in 1..Len(polygons) : k # j => polygons'[k] = polygons[k]
                       /\ mrk_points'[idx].matched
                       /\ \A k \in 1..Len(mrk_points) : k # idx => mrk_points'[k] = mrk_points[k]
                       /\ matched_count' = matched_count + 1 ]_vars

\* A point that lies in both polygons of the list has been counted by the
\* first one only
C4_Witness ==
    /\ pc = "lines"
    /\ Len(polygons) = 2
    /\ Len(mrk_points) = 1
    /\ Containing(mrk_points[1]) = {1, 2}
    /\ mrk_points[1].matched
    /\ polygons[1]._mrkHits = 1
    /\ polygons[2]._mrkHits = 0

\* C5: when Shapely cannot be imported the run still reaches its end, every
\* ratio is 0 and the status of a polygon is PARCIAL exactly when it has hits
\* and PENDIENTE exactly when it has none.
C5_DegradedMode ==
    ~USE_SHAPELY =>
        /\ pc # "done" => ENABLED Next
        /\ (Ran /\ pc \notin {"main", "reset"}) =>
               \A i \in 1..Len(polygons) : polygons[i]._cobertura = 0
        /\ AfterClassify =>
               \A i \in 1..Len(polygons) :
                   /\ polygons[i]._polyEstado = "PARCIAL" <=> polygons[i]._mrkHits > 0
                   /\ polygons[i]._polyEstado = "PENDIENTE" <=> polygons[i]._mrkHits = 0
                   /\ polygons[i]._polyEstado # "VOLADO"

\* Without Shapely, a finished run with a polygon that has hits and is
\* PARCIAL and a polygon that has none and is PENDIENTE
C5_Witness ==
    /\ ~USE_SHAPELY
    /\ pc = "done"
    /\ \E i, j \in 1..Len(polygons) :
          /\ polygons[i]._mrkHits > 0 /\ polygons[i]._polyEstado = "PARCIAL"
          /\ polygons[j]._mrkHits = 0 /\ polygons[j]._polyEstado = "PENDIENTE"

\* C6: a second run on the same polygons and photo-centres ends with the
\* status, ratio, hit counts, parcel status, matched flags and ledgers of the
\* first run.
C6_Idempotence ==
    (run = 2 /\ pc = "done") => Outputs = first

\* A second run has ended on an input with hits, a VOLADO polygon and a
\* ledger entry
C6_Witness ==
    /\ run = 2
    /\ pc = "done"
    /\ DOMAIN daily_incremental_ha # {}
    /\ \E i \in 1..Len(polygons) :
          polygons[i]._mrkHits > 0 /\ polygons[i]._polyEstado = "VOLADO"

\* C7: in every state the stored coverage ratio of every polygon lies between
\* 0 and 1.
C7_RatioBounds ==
    \A i \in 1..Len(polygons) :
        "_cobertura" \in polygons[i].keys =>
            (0 <= polygons[i]._cobertura /\ polygons[i]._cobertura <= 1000)

\* The footprint covers a polygon entirely, the quotient of the areas
\* exceeds 1 and the stored ratio is 1
C7_Witness ==
    \E i \in 1..Len(polygons) :
        areaRatio[i] > 10000 /\ polygons[i]._cobertura = 1000 /\ pc = "classify"

\* The date a polygon's tally names first among its greatest counts
TopDate(t) ==
    t[CHOOSE b \in 1..Len(t) :
          /\ \A j \in 1..Len(t) : t[j].n <= t[b].n
          /\ \A j \in 1..(b - 1) : t[j].n < t[b].n].k

Entry(d, k) == IF k \in DOMAIN d THEN d[k] ELSE 0

TouchedBy(field, key) ==
    {i \in 1..Len(polygons) :
        /\ Get(polygons[i], "_polyEstado", "PENDIENTE") # "PENDIENTE"
        /\ Count(polygons[i][field], key) > 0}

AllKeys(field) == UNION {Keys(polygons[i][field]) : i \in 1..Len(polygons)}

LedgerMatches(ha, count, field) ==
    /\ DOMAIN ha = {k \in AllKeys(field) : TouchedBy(field, k) # {}}
    /\ DOMAIN count = DOMAIN ha
    /\ \A k \in DOMAIN ha :
          /\ ha[k] = SumSeq([i \in 1..Len(polygons) |->
                               IF i \in TouchedBy(field, k) THEN polygons[i].SUP_HA ELSE 0])
          /\ count[k] = Cardinality(TouchedBy(field, k))

\* C9: after the ledger loop every operator's hectares and polygon count are
\* the sum and the number of the non-PENDIENTE polygons it has hits on, and
\* every (operator, date) cell likewise; nothing else is in the ledger.
C9_OperatorAttribution ==
    pc \in {"repair", "done"} =>
        /\ LedgerMatches(op_total_ha, op_poly_count, "_opHits")
        /\ LedgerMatches(op_date_ha, op_date_polys, "_opDateHits")

\* An operator has hits on two polygons and is credited with both
C9_Witness ==
    /\ pc = "done"
    /\ Len(polygons) = 2
    /\ \E op \in DOMAIN op_total_ha :
          /\ op_poly_count[op] = 2
          /\ op_total_ha[op] = polygons[1].SUP_HA + polygons[2].SUP_HA

\* The calendar day a label "dd/mm/yyyy" names, as <<yyyy, mm, dd>>
Num(label, from, to) ==
    LET RECURSIVE Acc(_, _)
        Acc(i, n) == IF i > to THEN n ELSE Acc(i + 1, 10 * n + (label[i] - 48))
    IN  Acc(from, 0)

Calendar(label) == <<Num(label, 7, 10), Num(label, 4, 5), Num(label, 1, 2)>>

Before(a, b) ==
    LET x == Calendar(a)
        y == Calendar(b)
    IN  \/ x[1] < y[1]
        \/ x[1] = y[1] /\ x[2] < y[2]
        \/ x[1] = y[1] /\ x[2] = y[2] /\ x[3] < y[3]

\* The dates of the per-date ledger, and the earliest of them
LedgerDates == DOMAIN daily_incremental_ha \ {QMark}
EarliestLedgerDate == CHOOSE d \in LedgerDates : \A e \in LedgerDates \ {d} : Before(d, e)

\* A polygon with a positive ratio and no hit of a point that carries a date
NoDatedHits(p) == \A i \in 1..Len(p._dateHits) : p._dateHits[i].k = QMark
ScenarioE(p) == Get(p, "_cobertura", 0) > 0 /\ NoDatedHits(p)

\* The hectares of the polygons whose primary date is d
PrimaryHa(d) ==
    SumSeq([i \in 1..Len(polygons) |->
               IF /\ Covered(polygons[i])
                  /\ polygons[i]._dateHits # <<>>
                  /\ TopDate(polygons[i]._dateHits) = d
               THEN polygons[i].SUP_HA ELSE 0])

\* C10: at the end of a run with a dated photo-centre, the hectares of every
\* polygon with a positive ratio and no date-tagged hit are part of the
\* ledger entry of the earliest known date, and the ledger reconciles.
C10_ScenarioE ==
    (pc = "done" /\ Ran /\ SomePointDated) =>
        \A i \in 1..Len(polygons) :
            ScenarioE(polygons[i]) =>
                /\ LedgerDates # {}
                /\ daily_incremental_ha[EarliestLedgerDate]
                       >= PrimaryHa(EarliestLedgerDate) + polygons[i].SUP_HA
                /\ Abs(SumFun(daily_incremental_ha) - CoveredHa) < 50

C12_ReportedStatus ==
    AfterIntersections =>
        \A i \in 1..Len(polygons) :
            LET key == ParcelKeyOf(polygons[i])
            IN  /\ key = "" => polygons[i].ESTADO = polygons[i]._polyEstado
                /\ key # "" =>
                       /\ polygons[i].ESTADO = StrictParcelStatus(ParcelMembers(key))
                       /\ \A m \in ParcelMembers(key) :
                              polygons[m].ESTADO = polygons[i].ESTADO

\* A polygon whose NOM_PREDIO is empty reports its own PARCIAL beside a
\* polygon of parcel P1 that reports PENDIENTE
C12_Witness ==
    /\ pc = "done"
    /\ \E i, j \in 1..Len(polygons) :
          /\ ParcelKeyOf(polygons[i]) = ""
          /\ polygons[i]._polyEstado = "PARCIAL" /\ polygons[i].ESTADO = "PARCIAL"
          /\ ParcelKeyOf(polygons[j]) = "P1"
          /\ polygons[j].ESTADO = "PENDIENTE"

\* Points i and i + 1 of the input belong to one log and lie at most 150 m
\* apart
Joined(i) ==
    LET a == mrk_points[i]
        b == mrk_points[i + 1]
    IN  /\ a.file = b.file
        /\ (b.lat - a.lat) * (b.lat - a.lat) + (b.lng - a.lng) * (b.lng - a.lng)
               <= 150 * 150

\* The maximal runs a..b of joined points, with at least two points
MaximalRuns ==
    {r \in (1..Len(mrk_points)) \X (1..Len(mrk_points)) :
        /\ r[1] < r[2]
        /\ \A i \in r[1]..(r[2] - 1) : Joined(i)
        /\ r[1] = 1 \/ ~Joined(r[1] - 1)
        /\ r[2] = Len(mrk_points) \/ ~Joined(r[2])}

RunPositions(r) == [k \in 1..(r[2] - r[1] + 1) |->
                      <<mrk_points[r[1] + k - 1].lat, mrk_points[r[1] + k - 1].lng>>]

\* The lines have been built in this run
LinesBuilt == Ran /\ USE_SHAPELY /\ pc \in {"cover", "classify", "aggregate", "ledger",
                                             "repair", "done"}

\* C13: the segments built are exactly the maximal runs of at least two
\* consecutive points of one log whose successive distances are all at most
\* 150 m, in input order; a distance of exactly 150 m does not split.
C13_SegmentBuilding ==
    LinesBuilt =>
        /\ Len(all_lines) = Cardinality(MaximalRuns)
        /\ \A r \in MaximalRuns :
               all_lines[Cardinality({q \in MaximalRuns : q[1] <= r[1]})] = RunPositions(r)

\* Three points of one log: the second is exactly 150 m from the first and
\* stays in its segment, the third is farther than 150 m and is dropped as a
\* segment of one point
C13_Witness ==
    /\ pc = "cover"
    /\ Len(mrk_points) = 3
    /\ mrk_points[1].file = mrk_points[3].file
    /\ <<mrk_points[1].lat, mrk_points[1].lng>> = <<75, 75>>
    /\ <<mrk_points[2].lat, mrk_points[2].lng>> = <<75, 225>>
    /\ <<mrk_points[3].lat, mrk_points[3].lng>> = <<110, 60>>
    /\ all_lines = << << <<75, 75>>, <<75, 225>> >> >>

\* The first polygon, in list order, whose ring contains the point by the
\* ray-casting test alone; 0 when there is none
UnfilteredWinner(pt) ==
    LET C == {j \in 1..Len(polygons) :
                point_in_polygon(pt.lat, pt.lng, polygons[j].coords)}
    IN  IF C = {} THEN 0 ELSE Min(C)

\* C14: a point that the ray-casting test puts inside a ring lies inside the
\* bounding box of the ring, and the matching pass with the bounding-box
\* filter gives the hit to the polygon a pass without the filter would give
\* it to, or to none.
C14_BBoxFilter ==
    /\ \A i \in 1..Len(mrk_points) : \A j \in 1..Len(polygons) :
          point_in_polygon(mrk_points[i].lat, mrk_points[i].lng, polygons[j].coords)
              => ~OutsideBBox(mrk_points[i].lat, mrk_points[i].lng,
                              BBox(polygons[j].coords))
    /\ (pc = "lines" /\ Len(mrk_points) = 1) =>
          LET w == UnfilteredWinner(mrk_points[1])
          IN  /\ \A j \in 1..Len(polygons) :
                     polygons[j]._mrkHits = IF j = w THEN 1 ELSE 0
              /\ mrk_points[1].matched <=> w # 0

\* A point inside the bounding box of the triangle but outside the triangle
\* passes the filter of the first polygon, fails its ray-casting test and is
\* matched to the second polygon
C14_Witness ==
    /\ pc = "lines"
    /\ Len(polygons) = 2
    /\ polygons[1].coords = Triangle
    /\ ~OutsideBBox(mrk_points[1].lat, mrk_points[1].lng, polygons[1]._bbox)
    /\ polygons[1]._mrkHits = 0
    /\ polygons[2]._mrkHits = 1

\* The orders in which the photo-centres can be listed
Orders(n) == {f \in [1..n -> 1..n] : \A a, b \in 1..n : a # b => f[a] # f[b]}

\* A tally as the function from its keys to their counts
AsCounts(t) == [k \in Keys(t) |-> Count(t, k)]

HitCounts(p) == <<p._mrkHits, AsCounts(p._opHits), AsCounts(p._dateHits),
                 AsCounts(p._opDateHits)>>

\* C15: at the end of the matching pass the hit count and the per-operator,
\* per-date and per-(operator, date) counts of every polygon, and the set of
\* matched points, are those the pass yields on any other order of the same
\* points.
C15_OrderIndependent ==
    (pc = "lines") =>
        \A f \in Orders(Len(mrk_points)) :
            LET pts == [i \in 1..Len(mrk_points) |-> mrk_points[f[i]]]
                fresh == [j \in 1..Len(polygons) |-> ResetPolygon(polygons[j])]
                after == MatchAll(fresh, pts, 1)
            IN  /\ \A j \in 1..Len(polygons) : HitCounts(after[j]) = HitCounts(polygons[j])
                /\ {f[i] : i \in {k \in 1..Len(pts) : ScanPolygons(pts[k], fresh, 1) # 0}}
                       = {i \in 1..Len(mrk_points) : mrk_points[i].matched}

\* Three points of two dates, two of them matched to one polygon and one
\* unmatched
C15_Witness ==
    /\ pc = "lines"
    /\ Len(mrk_points) = 3
    /\ matched_count = 2
    /\ \E j \in 1..Len(polygons) :
          polygons[j]._mrkHits = 2 /\ Len(polygons[j]._dateHits) = 2

\* The covered polygons without any date hit, and their hectares
NoDateHa ==
    SumSeq([i \in 1..Len(polygons) |->
               IF Covered(polygons[i]) /\ polygons[i]._dateHits = <<>>
               THEN polygons[i].SUP_HA ELSE 0])

RepairFires ==
    /\ pc = "repair"
    /\ Abs(SumFun(daily_incremental_ha) - CoveredHa) >= 50
    /\ \E i \in 1..Len(polygons) : Covered(polygons[i]) /\ polygons[i]._dateHits = <<>>
    /\ DOMAIN daily_incremental_ha # {}

\* C16: when the repair fires on a ledger that holds a date, it adds the
\* hectares of the covered polygons without date hits to the entry of the
\* earliest calendar date of the ledger and changes no other entry.
C16_EarliestDate ==
    [][ (RepairFires /\ LedgerDates # {}) =>
          /\ DOMAIN daily_incremental_ha' = DOMAIN daily_incremental_ha
          /\ \A d \in DOMAIN daily_incremental_ha :
                daily_incremental_ha'[d] =
                    daily_incremental_ha[d]
                    + (IF d = EarliestLedgerDate THEN NoDateHa ELSE 0) ]_vars

\* A ring that is missing, has fewer than 3 vertices, has all vertices equal
\* or encloses less than 1 m2
Malformed(p) ==
    \/ "coords" \notin p.keys
    \/ Len(p.coords) < 3
    \/ \A i \in 1..Len(p.coords) : p.coords[i] = p.coords[1]
    \/ TwiceArea(p.coords) < 2

\* C17: with malformed rings among the polygons, process_intersections never
\* raises (point_in_polygon never divides by zero) and always goes on to its
\* end; the ratio of a malformed polygon is 0 once the coverage loop is over
\* and its status is PARCIAL with hits and PENDIENTE without.
C17_MalformedGeometry ==
    /\ pc # "raised"
    /\ (Ran /\ pc \in {"reset", "match", "lines", "cover", "classify", "aggregate"})
           => ENABLED Next
    /\ \A i \in 1..Len(polygons) :
          Malformed(polygons[i]) =>
              /\ (Ran /\ pc \notin {"main", "reset"}) => polygons[i]._cobertura = 0
              /\ AfterClassify =>
                     polygons[i]._polyEstado =
                         IF polygons[i]._mrkHits > 0 THEN "PARCIAL" ELSE "PENDIENTE"

\* With Shapely and a flight line over them, the triangle of 0.5 m2 has a hit
\* and is PARCIAL with ratio 0, and the ring of three equal vertices, whose
\* bounding box holds the point, is PENDIENTE with ratio 0
C17_Witness ==
    /\ pc = "done"
    /\ USE_SHAPELY
    /\ all_lines # <<>>
    /\ Len(polygons) = 2
    /\ \E i, j \in 1..Len(polygons) :
          /\ TwiceArea(polygons[i].coords) = 1
          /\ polygons[i]._mrkHits > 0
          /\ polygons[i]._cobertura = 0 /\ polygons[i]._polyEstado = "PARCIAL"
          /\ Len(polygons[j].coords) = 3 /\ TwiceArea(polygons[j].coords) = 0
          /\ polygons[j]._cobertura = 0 /\ polygons[j]._polyEstado = "PENDIENTE"

\* The points the matching pass has gone through
Processed == IF pc = "match" THEN idx - 1 ELSE Len(mrk_points)

\* C18: from the reset on, the hit count of every polygon is the sum of its
\* per-operator counts, of its per-date counts and of its per-(operator,
\* date) counts; the hit counts of all polygons add up to the number of points
\* flagged matched, which is matched_count and is at most the number of
\* points gone through; every count present in a tally is at least 1.
C18_HitCounters ==
    (Ran /\ pc \notin {"main", "reset"}) =>
        /\ \A i \in 1..Len(polygons) :
              LET p == polygons[i]
              IN  /\ p._mrkHits = Total(p._opHits)
                  /\ p._mrkHits = Total(p._dateHits)
                  /\ p._mrkHits = Total(p._opDateHits)
                  /\ \A k \in 1..Len(p._opHits) : p._opHits[k].n >= 1
                  /\ \A k \in 1..Len(p._dateHits) : p._dateHits[k].n >= 1
                  /\ \A k \in 1..Len(p._opDateHits) : p._opDateHits[k].n >= 1
        /\ SumSeq([i \in 1..Len(polygons) |-> polygons[i]._mrkHits])
               = Cardinality({i \in 1..Len(mrk_points) : mrk_points[i].matched})
        /\ matched_count = Cardinality({i \in 1..Len(mrk_points) : mrk_points[i].matched})
        /\ matched_count <= Processed

\* In the middle of the pass: two points gone through, the first matched by
\* a point without date and the second unmatched, a third still to come
C18_Witness ==
    /\ pc = "match"
    /\ idx = 3
    /\ Len(mrk_points) = 3
    /\ mrk_points[1].matched /\ "date" \notin mrk_points[1].keys
    /\ ~mrk_points[2].matched
    /\ matched_count = 1
    /\ \E i \in 1..Len(polygons) : polygons[i]._dateHits = <<[k |-> QMark, n |-> 1]>>

\* The date the repair has assigned the dateless polygons to, if it has run
Repaired == pc = "done" /\ console.asignados # <<>>

\* C19: while and after the ledger is built the per-date hectares never sum
\* to more than the hectares of the non-PENDIENTE polygons; once the loop is
\* over every entry is the hectares of the polygons whose primary date it is,
\* plus, for the date the repair chose, the hectares of the covered polygons
\* without date hits: no polygon is counted twice and no PENDIENTE polygon
\* is counted.
C19_NoDoubleCounting ==
    /\ pc \in {"ledger", "repair", "done"} => SumFun(daily_incremental_ha) <= CoveredHa
    /\ pc \in {"repair", "done"} =>
           \A d \in DOMAIN daily_incremental_ha :
               daily_incremental_ha[d] =
                   PrimaryHa(d)
                   + (IF Repaired /\ d = console.asignados[1] THEN NoDateHa ELSE 0)
    /\ pc \in {"repair", "done"} =>
           SumFun(daily_incremental_ha) =
               SumSeq([i \in 1..Len(polygons) |->
                          IF Covered(polygons[i]) /\ polygons[i]._dateHits # <<>>
                          THEN polygons[i].SUP_HA ELSE 0])
               + (IF Repaired THEN NoDateHa ELSE 0)

\* The repair has added a polygon without date hits to the date of another
\* polygon, and the ledger sums to the covered hectares
C19_Witness ==
    /\ Repaired
    /\ NoDateHa > 0
    /\ Len(polygons) = 2
    /\ SumFun(daily_incremental_ha) = polygons[1].SUP_HA + polygons[2].SUP_HA
    /\ CoveredHa = SumFun(daily_incremental_ha)

\* The operators whose points of the present list fall in polygon i
OpsOf(i) ==
    {mrk_points[k].operator :
        k \in {m \in 1..Len(mrk_points) : UnfilteredWinner(mrk_points[m]) = i}}

\* C20: at the end of a second run on other photo-centres, every field the
\* engine writes is the one the points of the second run give: the hit
\* counts and tallies, the ratio, the polygon status, the reported status,
\* the list of touching operators and the matched flag of every point.
C20_FreshRecomputation ==
    (run = 2 /\ pc = "done") =>
        LET fresh == [j \in 1..Len(polygons) |-> ResetPolygon(polygons[j])]
            after == MatchAll(fresh, mrk_points, 1)
        IN  /\ \A i \in 1..Len(polygons) :
                  LET p == polygons[i]
                  IN  /\ HitCounts(p) = HitCounts(after[i])
                      /\ p._cobertura = IF areaRatio[i] = -1 THEN 0
                                        ELSE ClampRound(areaRatio[i])
                      /\ p._polyEstado = IF p._cobertura >= 550 THEN "VOLADO"
                                         ELSE IF p._cobertura > 0 \/ p._mrkHits > 0
                                         THEN "PARCIAL" ELSE "PENDIENTE"
                      /\ p.ESTADO = IF ParcelKeyOf(p) = "" THEN p._polyEstado
                                    ELSE StrictParcelStatus(ParcelMembers(ParcelKeyOf(p)))
                      /\ Get(p, "_ops", {}) = OpsOf(i)
            /\ \A k \in 1..Len(mrk_points) :
                  mrk_points[k].matched <=> UnfilteredWinner(mrk_points[k]) # 0

====
